---- MODULE Spec2Model ----
(***************************************************************************)
(* A model of webcam.c: the memory-mapped buffer pool (REQBUFS, QUERYBUF,  *)
(* mmap, munmap) and the streaming protocol (QBUF, STREAMON, DQBUF,        *)
(* STREAMOFF) of the two prototype iterations held in the file.            *)
(*                                                                         *)
(*   prog = "v1"  : main of lines 313-319  (webcam_open; webcam_read)      *)
(*   prog = "v2"  : main of lines 700-715  (webcam_open; webcam_resize;    *)
(*                  webcam_stream(true); webcam_read; webcam_stream(false))*)
(*   prog = "api" : any sequence of the public operations of the second    *)
(*                  iteration, at most MaxCalls of them                    *)
(*   prog = "convert"  : convertToRGB (357-396) called on byte buffers     *)
(*   prog = "equalize" : equalize (55-82, 407-434) called on a byte buffer *)
(*                                                                         *)
(* Every device request (ioctl, mmap, munmap) is one step.  The driver is  *)
(* the environment: it answers each request with success or failure, and   *)
(* owns the buffers that were enqueued and not yet handed back.            *)
(***************************************************************************)
EXTENDS Integers, FiniteSets, Sequences, TLC

\* ---------------------------------------------------------------- bounds
\* The largest buffer count the driver grants to a REQBUFS request.
MaxGrant == 4
\* The number of public operations called in a run of prog = "api".
MaxCalls == 4

\* ------------------------------------------------------ program constants
\* req.count = 4
ReqCount == 4
\* if (req.count < 2)
MinBuffers == 2

VARIABLES
    prog,      \* which main is running ("v1", "v2") or "api"
    pc,        \* the position in the function being executed
    mpos,      \* the caller's position: number of calls returned from
    op,        \* the protocol operation in progress
    i,         \* the loop index of the function being executed
    nbuffers,  \* w->nbuffers
    barr,      \* w->buffers: "null", "live" (calloc'ed) or "freed"
    mapst,     \* per entry of w->buffers: "none", "mapped", "failed", "unmapped"
    reqcount,  \* req.count
    bufidx,    \* buf.index of webcam_read
    dqok,      \* whether the last VIDIOC_DQBUF of webcam_read returned 0
    report,    \* the failure written to stderr by the operation in progress
    wnull,     \* first iteration: webcam_open returned NULL
    dcount,    \* driver: number of buffers allocated by REQBUFS
    dqueued,   \* driver: indices of the buffers it owns (enqueued)
    dstream,   \* driver: streaming enabled
    ctrl,      \* protocol state: "Idle" or "Streaming"
    owned,     \* indices returned by a successful dequeue and not yet requeued
    acc,       \* the last read or write of a mapped buffer by the application
    unm,       \* the last munmap
    last,      \* the last device request and its answer
    recycled,  \* indices dequeued and then successfully requeued by webcam_read
    redq,      \* indices dequeued again after having been recycled
    psrc,      \* the bytes of the buffer handed to convertToRGB or equalize
    frame,     \* w->frame: start ("null" or "alloc"), length and contents
    pres       \* the last call of convertToRGB or equalize and what it did

vars == <<prog, pc, mpos, op, i, nbuffers, barr, mapst, reqcount, bufidx, dqok,
          report, wnull, dcount, dqueued, dstream, ctrl, owned, acc, unm, last,
          recycled, redq, psrc, frame, pres>>

\* the state of the pixel functions, which the capture protocol leaves alone
pix == <<psrc, frame, pres>>

NoFrame == [start |-> "null", length |-> 0, data |-> <<>>]
NoPix == [fn |-> "none", calls |-> 0, srclen |-> 0, before |-> <<>>,
          oob |-> FALSE, divzero |-> FALSE, lost |-> FALSE, halted |-> FALSE]
PixIdle == psrc = <<>> /\ frame = NoFrame /\ pres = NoPix

Slots == 0 .. (MaxGrant - 1)

NoAcc == [valid |-> FALSE, idx |-> 0, count |-> 0, queued |-> FALSE,
          owned |-> FALSE, dqok |-> FALSE]
NoUnmap == [valid |-> FALSE, idx |-> 0, queued |-> FALSE, ctrl |-> "Idle",
            was |-> "none"]
Req(r, at, idx, res) == [req |-> r, at |-> at, idx |-> idx, res |-> res]

\* -------------------------------------------------------------- the driver
\* VIDIOC_QBUF is accepted for an allocated buffer the driver does not own.
QbufAccepted(idx) == idx < dcount /\ idx \notin dqueued

\* VIDIOC_DQBUF answers: -2 is EAGAIN, -1 any other error, r >= 0 the index of
\* a filled buffer: one the driver owns while streaming, or (a malformed
\* answer) an index the driver never allocated.
DqAnswers == (-2) .. MaxGrant
DqPossible(r) ==
    \/ r < 0
    \/ r >= 0 /\ dstream /\ r \in dqueued
    \/ r >= dcount

\* ---------------------------------------------------------------- callers
\* return from the function being executed to its caller
Return == pc' = "main" /\ mpos' = mpos + 1

\* the entry of a public operation of the second iteration
Enter(o) ==
    /\ op' = o
    /\ report' = "none"
    /\ i' = 0
    /\ reqcount' = IF o = "resize" THEN ReqCount ELSE reqcount
    /\ pc' = CASE o = "resize" -> IF barr = "null" THEN "rs_req" ELSE "rs_unmap"
               [] o = "start"  -> IF nbuffers = 0 THEN "so_on" ELSE "so_q"
               [] o = "read"   -> "rd_dq"
               [] OTHER        -> "sf_off"

CallerFrame == <<prog, mpos, nbuffers, barr, mapst, bufidx, dqok, wnull,
                 dcount, dqueued, dstream, ctrl, owned, acc, unm, last,
                 recycled, redq>>

\* main of the first iteration: webcam_open, webcam_read(w), return
MainV1 ==
    /\ prog = "v1" /\ pc = "main"
    /\ \/ /\ mpos = 0
          /\ op' = "open" /\ report' = "none" /\ i' = 0
          /\ reqcount' = ReqCount /\ pc' = "rs_req"
       \/ /\ mpos = 1
          /\ op' = "start" /\ report' = "none" /\ i' = 0
          /\ reqcount' = reqcount
          \* webcam_read(NULL) reads w->nbuffers through a null pointer
          /\ pc' = IF wnull THEN "crash" ELSE "so_q"
       \/ /\ mpos = 2
          /\ pc' = "done"
          /\ UNCHANGED <<op, report, i, reqcount>>
    /\ UNCHANGED CallerFrame
    /\ UNCHANGED pix

\* main of the second iteration
MainV2 ==
    /\ prog = "v2" /\ pc = "main"
    /\ \/ mpos = 0 /\ Enter("resize")
       \/ mpos = 1 /\ Enter("start")
       \/ mpos = 2 /\ Enter("read")
       \/ mpos = 3 /\ Enter("stop")
       \/ mpos = 4 /\ pc' = "done" /\ UNCHANGED <<op, report, i, reqcount>>
    /\ UNCHANGED CallerFrame
    /\ UNCHANGED pix

\* any public operation, in any order
ApiCall ==
    /\ prog = "api" /\ pc = "main" /\ mpos < MaxCalls
    /\ \E o \in {"resize", "start", "read", "stop"} : Enter(o)
    /\ UNCHANGED CallerFrame
    /\ UNCHANGED pix

\* ------------------------------------------------------------ webcam_resize
\* for (i = 0; i < w->nbuffers; i++) munmap(w->buffers[i].start, ...)
\* Reading the entries of a released array is undefined: the run may stop.
ResizeUnmap ==
    /\ pc = "rs_unmap" /\ i < nbuffers
    /\ \E ub \in (IF barr = "live" THEN {"go"} ELSE {"go", "crash"}) :
          pc' = IF ub = "crash" THEN "crash" ELSE "rs_unmap"
    /\ unm' = [valid |-> TRUE, idx |-> i, queued |-> i \in dqueued,
               ctrl |-> ctrl, was |-> mapst[i]]
    /\ mapst' = [mapst EXCEPT ![i] = "unmapped"]
    /\ last' = Req("MUNMAP", "rs_unmap", i, "ok")
    /\ i' = i + 1
    /\ UNCHANGED <<prog, mpos, op, nbuffers, barr, reqcount, bufidx, dqok,
                   report, wnull, dcount, dqueued, dstream, ctrl, owned, acc,
                   recycled, redq>>
    /\ UNCHANGED pix

\* free(w->buffers); the pointer and nbuffers keep their values.
\* Releasing an array twice is undefined: the run may stop.
ResizeFree ==
    /\ pc = "rs_unmap" /\ i >= nbuffers
    /\ \E ub \in (IF barr = "live" THEN {"go"} ELSE {"go", "crash"}) :
          pc' = IF ub = "crash" THEN "crash" ELSE "rs_req"
    /\ barr' = "freed"
    /\ UNCHANGED <<prog, mpos, op, i, nbuffers, mapst, reqcount, bufidx, dqok,
                   report, wnull, dcount, dqueued, dstream, ctrl, owned, acc,
                   unm, last, recycled, redq>>
    /\ UNCHANGED pix

\* (mutant) the test against the minimum is off by one: a single buffer passes
InsufficientOffByOne(count) == count < MinBuffers - 1

\* if (req.count < 2) "Insufficient buffer memory"
Insufficient(count) == count < MinBuffers

\* VIDIOC_REQBUFS with req.count = 4; r = -1 is a rejected request, r >= 0
\* the count the driver grants.  (calloc is taken to succeed.)
ReqBufs ==
    /\ pc = "rs_req"
    /\ \E r \in (-1) .. MaxGrant :
        /\ last' = Req("REQBUFS", "rs_req", 0, IF r < 0 THEN "fail" ELSE "ok")
        /\ IF r < 0
           THEN /\ report' = "ReqBufsFailed"
                /\ wnull' = (prog = "v1")
                /\ Return
                /\ UNCHANGED <<i, nbuffers, barr, mapst, reqcount, dcount,
                               dqueued, owned, recycled>>
           ELSE /\ reqcount' = r
                /\ dcount' = r
                /\ dqueued' = {}
                /\ owned' = {}
                /\ recycled' = {}
                /\ IF Insufficient(r)
                   THEN /\ report' = "InsufficientBuffers"
                        /\ wnull' = (prog = "v1")
                        /\ Return
                        /\ UNCHANGED <<i, nbuffers, barr, mapst>>
                   ELSE /\ nbuffers' = r
                        /\ barr' = "live"
                        /\ mapst' = [s \in Slots |-> "none"]
                        /\ i' = 0
                        /\ pc' = "rs_map"
                        /\ UNCHANGED <<report, wnull, mpos>>
    /\ UNCHANGED <<prog, op, bufidx, dqok, dstream, ctrl, acc, unm, redq>>
    /\ UNCHANGED pix

\* one round of the mapping loop: VIDIOC_QUERYBUF, then mmap
QueryMap ==
    /\ pc = "rs_map" /\ i < nbuffers
    /\ \E r \in {"qfail", "mfail", "ok"} :
        /\ last' = Req(IF r = "qfail" THEN "QUERYBUF" ELSE "MMAP", "rs_map", i,
                       IF r = "ok" THEN "ok" ELSE "fail")
        /\ mapst' = IF r = "qfail" THEN mapst
                    ELSE [mapst EXCEPT ![i] = IF r = "ok" THEN "mapped" ELSE "failed"]
        /\ report' = CASE r = "qfail" -> "QueryFailed"
                       [] r = "mfail" -> "MapFailed"
                       [] OTHER       -> report
        /\ wnull' = (prog = "v1" /\ r # "ok")
        /\ IF r = "ok" /\ i + 1 < nbuffers
           THEN i' = i + 1 /\ UNCHANGED <<pc, mpos>>
           ELSE i' = i /\ Return
    /\ UNCHANGED <<prog, op, nbuffers, barr, reqcount, bufidx, dqok, dcount,
                   dqueued, dstream, ctrl, owned, acc, unm, recycled, redq>>
    /\ UNCHANGED pix

\* ----------------------------------------------------- start of streaming
\* "Clear buffers": VIDIOC_QBUF for i = 0 .. nbuffers-1, return on a rejection
StartQbuf ==
    /\ pc = "so_q" /\ i < nbuffers
    /\ \E ok \in BOOLEAN :
        /\ ok => QbufAccepted(i)
        /\ last' = Req("QBUF", "so_q", i, IF ok THEN "ok" ELSE "fail")
        /\ IF ok
           THEN /\ dqueued' = dqueued \cup {i}
                /\ owned' = owned \ {i}
                /\ i' = i + 1
                /\ pc' = IF i + 1 < nbuffers THEN "so_q" ELSE "so_on"
                /\ UNCHANGED <<report, mpos>>
           ELSE /\ report' = "QueueFailed"
                /\ Return
                /\ UNCHANGED <<dqueued, owned, i>>
    /\ UNCHANGED <<prog, op, nbuffers, barr, mapst, reqcount, bufidx, dqok,
                   wnull, dcount, dstream, ctrl, acc, unm, recycled, redq>>
    /\ UNCHANGED pix

\* VIDIOC_STREAMON; the first iteration goes on to the capture loop,
\* the second returns from webcam_stream
StreamOn ==
    /\ pc = "so_on"
    /\ \E ok \in BOOLEAN :
        /\ last' = Req("STREAMON", "so_on", 0, IF ok THEN "ok" ELSE "fail")
        /\ IF ok
           THEN /\ dstream' = TRUE
                /\ ctrl' = "Streaming"
                /\ IF prog = "v1"
                   THEN pc' = "rd_dq" /\ op' = "read" /\ UNCHANGED mpos
                   ELSE Return /\ UNCHANGED op
                /\ UNCHANGED report
           ELSE /\ report' = "StreamOnFailed"
                /\ Return
                /\ UNCHANGED <<dstream, ctrl, op>>
    /\ UNCHANGED <<prog, i, nbuffers, barr, mapst, reqcount, bufidx, dqok,
                   wnull, dcount, dqueued, owned, acc, unm, recycled, redq>>
    /\ UNCHANGED pix

\* ---------------------------------------------------------------- capture
\* (mutant) EAGAIN is handled like the other errors: no retry
AfterDequeueNoRetry(r) == "rd_use"

\* the position after a VIDIOC_DQBUF answer r: EAGAIN continues the loop; any
\* other error prints, and its break leaves the switch, not the loop
AfterDequeue(r) == IF r = -2 THEN "rd_dq" ELSE "rd_use"

\* CLEAR(buf); VIDIOC_DQBUF
Dequeue ==
    /\ pc = "rd_dq"
    /\ \E r \in DqAnswers :
        /\ DqPossible(r)
        /\ last' = Req("DQBUF", "rd_dq", IF r < 0 THEN 0 ELSE r,
                       CASE r = -2 -> "eagain" [] r = -1 -> "fail" [] OTHER -> "ok")
        /\ pc' = AfterDequeue(r)
        /\ bufidx' = IF r < 0 THEN 0 ELSE r
        /\ dqok' = (r >= 0)
        /\ report' = IF r = -1 THEN "CaptureFailed" ELSE report
        /\ dqueued' = IF r >= 0 THEN dqueued \ {r} ELSE dqueued
        /\ owned' = IF r >= 0 /\ r < dcount THEN owned \cup {r} ELSE owned
        /\ redq' = IF r >= 0 /\ r \in recycled THEN redq \cup {r} ELSE redq
        /\ recycled' = IF r >= 0 THEN recycled \ {r} ELSE recycled
    /\ UNCHANGED <<prog, mpos, op, i, nbuffers, barr, mapst, reqcount, wnull,
                   dcount, dstream, ctrl, acc, unm>>
    /\ UNCHANGED pix

\* (mutant) the assertion is compiled out
AssertIndexOff(idx) == TRUE

\* assert(buf.index < w->nbuffers)
AssertIndex(idx) == idx < nbuffers

\* (mutant) the break after the use is missing: the loop dequeues again
AfterUseNoBreak == "rd_dq"

\* the position after the buffer was used: break, to the requeue
AfterUse == "rd_q"

\* the assertion, then the use of w->buffers[buf.index]: fwrite, equalize,
\* fwrite in the first iteration, convertToRGB in the second.  Reading
\* through a released array or an entry that is not mapped is undefined:
\* the run may stop.
UseBuffer ==
    /\ pc = "rd_use"
    /\ IF AssertIndex(bufidx)
       THEN /\ \E ub \in (IF barr = "live" /\ bufidx \in Slots
                             /\ mapst[bufidx] = "mapped"
                          THEN {"go"} ELSE {"go", "crash"}) :
                  pc' = IF ub = "crash" THEN "crash" ELSE AfterUse
            /\ acc' = [valid |-> TRUE, idx |-> bufidx, count |-> nbuffers,
                       queued |-> bufidx \in dqueued,
                       owned |-> bufidx \in owned, dqok |-> dqok]
            /\ UNCHANGED report
       ELSE /\ pc' = "abort"
            /\ report' = "IndexOutOfRange"
            /\ UNCHANGED acc
    /\ UNCHANGED <<prog, mpos, op, i, nbuffers, barr, mapst, reqcount, bufidx,
                   dqok, wnull, dcount, dqueued, dstream, ctrl, owned, unm,
                   last, recycled, redq>>
    /\ UNCHANGED pix

\* (mutant) buf is cleared again before the requeue request: its index is 0
\* whatever the dequeue returned
RequeueIndexCleared == bufidx * 0

\* the index handed to the requeueing VIDIOC_QBUF: buf, as DQBUF left it
RequeueIndex == bufidx

\* "Queue buffer back": the first iteration goes on to STREAMOFF when the
\* request succeeded and returns when it was rejected; the second returns
Requeue ==
    /\ pc = "rd_q"
    /\ \E ok \in BOOLEAN :
        /\ ok => QbufAccepted(RequeueIndex)
        /\ last' = Req("QBUF", "rd_q", RequeueIndex, IF ok THEN "ok" ELSE "fail")
        /\ IF ok
           THEN /\ dqueued' = dqueued \cup {RequeueIndex}
                /\ owned' = owned \ {RequeueIndex}
                /\ recycled' = IF dqok THEN recycled \cup {bufidx} ELSE recycled
                /\ IF prog = "v1"
                   THEN pc' = "sf_off" /\ op' = "stop" /\ UNCHANGED mpos
                   ELSE Return /\ UNCHANGED op
                /\ UNCHANGED report
           ELSE /\ report' = "RequeueFailed"
                /\ Return
                /\ UNCHANGED <<dqueued, owned, recycled, op>>
    /\ UNCHANGED <<prog, i, nbuffers, barr, mapst, reqcount, bufidx, dqok,
                   wnull, dcount, dstream, ctrl, acc, unm, redq>>
    /\ UNCHANGED pix

\* ------------------------------------------------------- end of streaming
\* (mutant) a rejected stream-disable request is retried
AfterStreamOffRetry(ok) == IF ok THEN "main" ELSE "sf_off"

\* the position after VIDIOC_STREAMOFF: the function returns on either answer
AfterStreamOff(ok) == "main"

\* VIDIOC_STREAMOFF: a rejection is printed; the function returns either way
StreamOff ==
    /\ pc = "sf_off"
    /\ \E ok \in BOOLEAN :
        /\ last' = Req("STREAMOFF", "sf_off", 0, IF ok THEN "ok" ELSE "fail")
        /\ dstream' = IF ok THEN FALSE ELSE dstream
        /\ dqueued' = IF ok THEN {} ELSE dqueued
        /\ recycled' = IF ok THEN {} ELSE recycled
        /\ report' = IF ok THEN report ELSE "StreamOffFailed"
        /\ pc' = AfterStreamOff(ok)
        /\ mpos' = IF pc' = "main" THEN mpos + 1 ELSE mpos
        /\ ctrl' = IF pc' = "main" THEN "Idle" ELSE ctrl
    /\ UNCHANGED <<prog, op, i, nbuffers, barr, mapst, reqcount, bufidx, dqok,
                   wnull, dcount, owned, acc, unm, redq>>
    /\ UNCHANGED pix

\* ---------------------------------------------------------- specifications
InitCommon ==
    /\ pc = "main" /\ mpos = 0 /\ op = "none" /\ i = 0
    /\ nbuffers = 0 /\ barr = "null" /\ mapst = [s \in Slots |-> "none"]
    /\ reqcount = ReqCount /\ bufidx = 0 /\ dqok = FALSE
    /\ report = "none" /\ wnull = FALSE
    /\ dcount = 0 /\ dqueued = {} /\ dstream = FALSE
    /\ ctrl = "Idle" /\ owned = {} /\ acc = NoAcc /\ unm = NoUnmap
    /\ last = Req("none", "main", 0, "ok")
    /\ recycled = {} /\ redq = {}

Init == prog \in {"v1", "v2"} /\ InitCommon /\ PixIdle

InitApi == prog = "api" /\ InitCommon /\ PixIdle

Steps ==
    \/ ReqBufs \/ QueryMap \/ StartQbuf \/ StreamOn
    \/ Dequeue \/ UseBuffer \/ Requeue \/ StreamOff

Next == MainV1 \/ MainV2 \/ Steps

NextApi == ApiCall \/ ResizeUnmap \/ ResizeFree \/ Steps

\* the two main programs
Spec == Init /\ [][Next]_vars

\* every sequence of at most MaxCalls public operations
SpecApi == InitApi /\ [][NextApi]_vars

\* a streaming driver that holds a queued buffer answers VIDIOC_DQBUF with
\* something other than EAGAIN
DequeueAnswered ==
    Dequeue /\ dstream /\ dqueued # {} /\ pc' # "rd_dq"

\* the two main programs, with a driver that does not answer EAGAIN for ever
\* while it streams and holds a buffer
SpecLive == Init /\ [][Next]_vars /\ WF_vars(DequeueAnswered)

\* ------------------------------------------------------------ convertToRGB
\* The packed YUYV buffer is a sequence of bytes; C index k is element k + 1.

\* bound: luma samples (2-byte pairs) in a buffer handed to convertToRGB
MaxSamples == 2
\* bound: calls of convertToRGB on one webcam structure
MaxConv == 2

\* byte values the buffers are filled with: below and at the black level 0x10,
\* the neutral chroma 0x80, and the white level
PixBytes == {0, 16, 128, 235}

\* all buffers of 1..MaxSamples samples over PixBytes
ConvSources ==
    UNION {[1 .. (2 * n) -> PixBytes] : n \in 1 .. MaxSamples}

\* i is a size_t and the offsets are ints: i + offset is computed modulo
\* SIZE_MAX + 1.  The model keeps a modulus far above every buffer length.
SizeMod == 2 ^ 30
SizeAdd(k, off) == (k + off) % SizeMod

UOffset(k) == IF k % 4 = 0 THEN 1 ELSE -1

VOffsetSwapped(k) == IF k % 4 = 0 THEN 1 ELSE -1
VOffset(k) == IF k % 4 = 2 THEN 1 ELSE -1

NeutralZero == 128 - 128
Neutral == 128

\* the chroma byte next to sample k, or the neutral value at the buffer's edge
Chroma(buf, k, off) ==
    IF SizeAdd(k, off) > 0 /\ SizeAdd(k, off) < Len(buf)
    THEN buf[SizeAdd(k, off) + 1]
    ELSE Neutral

\* The doubles R, G and B are (255/219)(y-16) + c (255/224)(x-128) with c in
\* thousandths.  Over the common denominator 219 * 224 * 1000, reduced by 30,
\* they are exact quotients of integers below 2^31.
Den == (219 * 224 * 1000) \div 30
YTerm(y) == ((255 * 224 * 1000) \div 30) * (y - 16)
PTerm(c, x) == ((c * 255 * 219) \div 30) * (x - 128)

RNum(y, u, v) == YTerm(y) + PTerm(0, u) + PTerm(1402, v)
GNum(y, u, v) == YTerm(y) + PTerm(344, u) - PTerm(714, v)
BNum(y, u, v) == YTerm(y) + PTerm(1772, u) + PTerm(0, v)

\* int r = x truncates the quotient num / Den toward zero, so a negative
\* quotient above -1 is 0 as every other negative one after the clamp
clamp(num) ==
    IF num < 0 THEN 0
    ELSE IF num \div Den > 255 THEN 255
    ELSE num \div Den

\* y, u and v of the pixel at sample k (k even)
PixY(buf, k) == buf[k + 1]
PixU(buf, k) == Chroma(buf, k, UOffset(k))
PixV(buf, k) == Chroma(buf, k, VOffset(k))

\* the C indices of the samples the loop visits
SampleIdx(buf) == {k \in 0 .. (Len(buf) - 1) : k % 2 = 0}

\* the frame indices the loop writes
WrittenIdx(buf) == {(k \div 2) * 3 + c : k \in SampleIdx(buf), c \in 0 .. 2}

\* the byte the loop writes at frame index f
Written(buf, f) ==
    LET k == (f \div 3) * 2
    IN  IF f % 3 = 0 THEN clamp(RNum(PixY(buf, k), PixU(buf, k), PixV(buf, k)))
        ELSE IF f % 3 = 1
             THEN clamp(GNum(PixY(buf, k), PixU(buf, k), PixV(buf, k)))
             ELSE clamp(BNum(PixY(buf, k), PixU(buf, k), PixV(buf, k)))

\* the frame is allocated by the first call only
FrameLength(buf) ==
    IF frame.start = "null" THEN (Len(buf) \div 2) * 3 ELSE frame.length

\* convertToRGB(buf, w).  A write past the end of the frame is a heap
\* overflow: the call may go on or the process may die.
ConvertCall ==
    /\ prog = "convert" /\ pres.fn # "convert" /\ ~pres.halted
    /\ pres.calls < MaxConv
    /\ LET len == FrameLength(psrc)
           over == \E f \in WrittenIdx(psrc) : f >= len
       IN  /\ frame' = [start |-> "alloc", length |-> len,
                        data |-> [f \in 1 .. len |->
                                    IF (f - 1) \in WrittenIdx(psrc)
                                    THEN Written(psrc, f - 1)
                                    ELSE frame.data[f]]]
           /\ \E h \in (IF over THEN BOOLEAN ELSE {FALSE}) :
                  pres' = [pres EXCEPT !.fn = "convert",
                                       !.calls = pres.calls + 1,
                                       !.srclen = Len(psrc),
                                       !.oob = over,
                                       !.halted = h]
    /\ UNCHANGED psrc
    /\ UNCHANGED <<prog, pc, mpos, op, i, nbuffers, barr, mapst, reqcount,
                   bufidx, dqok, report, wnull, dcount, dqueued, dstream,
                   ctrl, owned, acc, unm, last, recycled, redq>>

\* webcam_resize replaced the buffers and the next frame was dequeued: the
\* next buffer handed to convertToRGB has any length, with one fill byte
NextSource ==
    /\ prog = "convert" /\ pres.fn = "convert" /\ ~pres.halted
    /\ pres.calls < MaxConv
    /\ \E n \in 1 .. MaxSamples, b \in {16, 235} :
           psrc' = [k \in 1 .. (2 * n) |-> b]
    /\ pres' = [pres EXCEPT !.fn = "source"]
    /\ UNCHANGED frame
    /\ UNCHANGED <<prog, pc, mpos, op, i, nbuffers, barr, mapst, reqcount,
                   bufidx, dqok, report, wnull, dcount, dqueued, dstream,
                   ctrl, owned, acc, unm, last, recycled, redq>>

InitConv ==
    /\ prog = "convert" /\ InitCommon
    /\ psrc \in ConvSources /\ frame = NoFrame /\ pres = NoPix

NextConv == ConvertCall \/ NextSource

\* convertToRGB called up to MaxConv times on one webcam structure
SpecConv == InitConv /\ [][NextConv]_vars

\* ---------------------------------------------------------------- equalize
\* Both iterations of equalize (55-82 and 407-434); the buffer is psrc.

\* bound: luma samples in a buffer handed to equalize
MaxEqSamples == 5

\* luma and chroma values the buffers are filled with
EqBytes == {16, 128, 235}

\* all buffers of 1..MaxEqSamples luma samples over EqBytes, each followed
\* by the same chroma byte
EqSources ==
    UNION {{[k \in 1 .. (2 * n) |-> IF k % 2 = 1 THEN l[(k + 1) \div 2] ELSE c] :
                l \in [1 .. n -> EqBytes], c \in EqBytes} :
           n \in 1 .. MaxEqSamples}

\* unsigned int depth = 1 << 8
Depth == 256

\* the C indices the histogram loop visits
LumaIdx(buf) == {k \in 0 .. (Len(buf) - 1) : k % 2 = 0}

\* the step of the loop that writes the buffer
RemapStepOne == 2 - 1
RemapStep == 2

\* the C indices the remapping loop visits
RemapIdx(buf) == {k \in 0 .. (Len(buf) - 1) : k % RemapStep = 0}

\* histogram[v] after the first loop.  The first iteration indexes with
\* (unsigned char)buf->start[i].  The second one indexes with buf->start[i]
\* itself: where that is a signed char a byte of 0x80 or more is a negative
\* index and its count does not reach the table (lost).
Histogram(buf, v, lost) ==
    IF lost /\ v >= 128 THEN 0
    ELSE Cardinality({k \in LumaIdx(buf) : buf[k + 1] = v})

\* cdf[v]: the sum of histogram[0 .. v]
Cdf(buf, v, lost) ==
    Cardinality({k \in LumaIdx(buf) :
                    buf[k + 1] <= v /\ Histogram(buf, buf[k + 1], lost) > 0})

\* cdf_min: the first cdf[i] above 0, which is cdf at the lowest value the
\* histogram counted, or 0 when it counted none
CdfMin(buf, lost) ==
    LET pos == {buf[k + 1] : k \in {j \in LumaIdx(buf) :
                                      Histogram(buf, buf[j + 1], lost) > 0}}
    IN  IF pos = {} THEN 0
        ELSE Cdf(buf, CHOOSE v \in pos : \A x \in pos : v <= x, lost)

\* buf->length / 2 - cdf_min
EqDen(buf, cmin) == Len(buf) \div 2 - cmin

\* 1.0 * (cdf[value] - cdf_min) / den * (depth - 1) stored into a char: the
\* double is truncated, and the byte kept is the value modulo 256
EqByte(buf, value, lost, cmin) ==
    (((Depth - 1) * (Cdf(buf, value, lost) - cmin)) \div EqDen(buf, cmin)) % Depth

\* what the conversion of 0.0 / 0 (a NaN) to char may leave in a byte
NanBytes == {0, 128, 255}

\* equalize(buf).  With a zero denominator every written byte is the
\* conversion of a NaN, which is undefined: some byte g.  With a negative
\* histogram index the increment lands outside the table: the call goes on
\* with the count lost, or the process dies before the buffer is written.
EqualizeCall ==
    /\ prog = "equalize" /\ pres.fn = "none"
    /\ \E lost \in BOOLEAN, h \in BOOLEAN, g \in NanBytes :
           LET cmin == CdfMin(psrc, lost)
               zero == EqDen(psrc, cmin) = 0
           IN  /\ lost => \E k \in LumaIdx(psrc) : psrc[k + 1] >= 128
               /\ h => lost
               /\ g # 0 => (zero /\ ~h)
               /\ psrc' = [k \in 1 .. Len(psrc) |->
                             IF h \/ (k - 1) \notin RemapIdx(psrc) THEN psrc[k]
                             ELSE IF zero THEN g
                             ELSE EqByte(psrc, psrc[k], lost, cmin)]
               /\ pres' = [pres EXCEPT !.fn = "equalize",
                                       !.calls = 1,
                                       !.srclen = Len(psrc),
                                       !.before = psrc,
                                       !.divzero = zero /\ ~h,
                                       !.lost = lost,
                                       !.halted = h]
    /\ UNCHANGED frame
    /\ UNCHANGED <<prog, pc, mpos, op, i, nbuffers, barr, mapst, reqcount,
                   bufidx, dqok, report, wnull, dcount, dqueued, dstream,
                   ctrl, owned, acc, unm, last, recycled, redq>>

InitEq ==
    /\ prog = "equalize" /\ InitCommon
    /\ psrc \in EqSources /\ frame = NoFrame /\ pres = NoPix

NextEq == EqualizeCall

\* equalize called on one buffer
SpecEq == InitEq /\ [][NextEq]_vars

\* ------------------------------------------------------------------ claims

\* C1 (as claimed): the application reads or writes a mapped buffer only
\* while that buffer is application-owned (returned by a successful dequeue
\* and not yet requeued), never while it is driver-queued.
C1_AccessOnlyWhenOwned == acc.valid => (acc.owned /\ ~acc.queued)

\* C2 (as claimed): a dequeue request is issued only while Streaming, that is
\* after every enqueue and the stream-enable request of start() succeeded and
\* before stop(); never after start() failed.
C2_DequeueOnlyWhenStreaming == last.req = "DQBUF" => ctrl = "Streaming"

\* C3 (as claimed): after a dequeue request failed with an error other than
\* would-block the capture ends with CaptureFailed: the function has returned
\* and the failed dequeue is the last request it issued (no buffer is used,
\* none is requeued), and no buffer became application-owned.
C3_FailedDequeueEndsCapture ==
    report = "CaptureFailed" =>
        /\ pc \in {"main", "done"}
        /\ last.req = "DQBUF"
        /\ ~(acc.valid /\ ~acc.dqok)

\* C4 (as claimed): when start() was rejected, at the enqueue of some buffer
\* or at the stream-enable request, the controller is Idle afterwards and no
\* buffer of the pool is driver-queued.
C4_FailedStartLeavesNothingQueued ==
    (op = "start" /\ pc = "main" /\ report \in {"QueueFailed", "StreamOnFailed"})
        => (ctrl = "Idle" /\ dqueued = {})

\* C5: the index left by the dequeue request is checked against the pool
\* size before any buffer access: no buffers[index] with index >= count is
\* read or written, the capture does not get past the check with such an
\* index, and such an index ends in the IndexOutOfRange failure (the failed
\* assertion).
C5_IndexCheckedBeforeAccess ==
    /\ acc.valid => acc.idx < acc.count
    /\ (op = "read" /\ pc \notin {"rd_dq", "rd_use"} /\ bufidx >= nbuffers)
          => (pc = "abort" /\ report = "IndexOutOfRange")
    /\ pc = "abort" => (report = "IndexOutOfRange" /\ bufidx >= nbuffers)

\* C5 witness: the driver answered a dequeue request with an index that is
\* not below the pool size, and the check stopped the capture.
C5_Witness == pc = "abort" /\ dqok /\ bufidx >= nbuffers /\ ~acc.valid

C7_RingReuse ==
    \A b \in recycled : b \in dqueued /\ (dstream => DqPossible(b))

\* C7 witness: an index is dequeued a second time, and is being used.
C7_Witness == redq # {} /\ pc = "rd_use" /\ bufidx \in redq /\ ctrl = "Streaming"

\* C8: stop() leaves the controller Idle: after the stream-disable request
\* the function has returned and the controller is Idle whether the request
\* succeeded or was rejected, and a rejection is reported as StreamOffFailed.
C8_StopLeavesIdle ==
    last.req = "STREAMOFF" =>
        /\ ctrl = "Idle"
        /\ pc \in {"main", "done"}
        /\ (last.res = "fail") <=> (report = "StreamOffFailed")

\* C8 witness: the stream-disable request was rejected while the driver was
\* streaming; the controller is Idle all the same.
C8_Witness ==
    /\ last.req = "STREAMOFF" /\ last.res = "fail"
    /\ dstream /\ ctrl = "Idle" /\ report = "StreamOffFailed"

\* C9 (as claimed): whenever webcam_resize unmaps buffer b, the controller is
\* Idle and b is not owned by the driver.
C9_NoUnmapWhileQueued == unm.valid => (unm.ctrl = "Idle" /\ ~unm.queued)

\* C10: a pool allocation that is granted fewer than 2 buffers fails with
\* InsufficientBuffers and issues no query-buffer or mmap request: the
\* granting REQBUFS is the last request of the allocation.
C10_InsufficientBuffersNoMapping ==
    /\ (op \in {"open", "resize"} /\ last.req = "REQBUFS" /\ last.res = "ok"
          /\ reqcount < 2)
          => (report = "InsufficientBuffers" /\ pc = "main")
    /\ report = "InsufficientBuffers" => (last.req = "REQBUFS" /\ reqcount < 2)
    /\ (pc = "rs_map" \/ last.req \in {"QUERYBUF", "MMAP"}) => reqcount >= 2

\* C10 witness: 4 buffers were requested and 1 was granted.
C10_Witness ==
    /\ report = "InsufficientBuffers" /\ reqcount = 1 /\ dcount = 1
    /\ \A s \in Slots : mapst[s] = "none"

\* C11 (as claimed): partial pools are never used: whenever an enqueue, a
\* stream-enable or a dequeue request is issued, every entry 0..count-1 of
\* the current pool is mapped.
C11_NoRequestOnPartialPool ==
    last.req \in {"QBUF", "STREAMON", "DQBUF"} =>
        \A s \in Slots : s < nbuffers => mapst[s] = "mapped"

\* C17 (as claimed): when the stream-enable request succeeded, every buffer
\* 0..N-1 was enqueued before it, and the stream-disable request has been
\* issued when the run ends, also when the dequeue or the requeue request was
\* rejected.
C17_EnableIsFollowedByDisable ==
    /\ (last.req = "STREAMON" /\ last.res = "ok") => dqueued = 0 .. (nbuffers - 1)
    /\ pc = "done" => ctrl = "Idle"

\* C19: every EAGAIN answer is followed by another dequeue request, with no
\* change to buffer ownership or controller state; the capture loop is left
\* only by an answer other than EAGAIN (there is no timeout); and when a
\* streaming driver that holds a buffer eventually answers with something
\* other than EAGAIN, the capture loop is left.
C19_BusyPollUntilAnswered ==
    /\ [][(pc = "rd_dq" /\ last'.req = "DQBUF" /\ last'.res = "eagain")
            => (pc' = "rd_dq"
                /\ UNCHANGED <<dqueued, dstream, dcount, owned, ctrl, nbuffers,
                               mapst, barr, acc>>)]_vars
    /\ [][(pc = "rd_dq" /\ pc' # "rd_dq")
            => (last'.req = "DQBUF" /\ last'.res # "eagain")]_vars
    /\ ((pc = "rd_dq" /\ dstream /\ dqueued # {}) ~> (pc # "rd_dq"))

\* C19 witness: the driver answered EAGAIN while streaming with queued
\* buffers, and the loop is about to issue the dequeue request again.
C19_Witness ==
    /\ pc = "rd_dq" /\ last.req = "DQBUF" /\ last.res = "eagain"
    /\ dstream /\ dqueued # {} /\ owned = {}

\* C12 (as claimed): after every call of convertToRGB, also a later call with
\* a source of another length, the frame length is source length / 2 * 3 and
\* every frame index the call wrote is below the frame length.
C12_FrameFitsEverySource ==
    pres.fn = "convert" =>
        /\ frame.length = (pres.srclen \div 2) * 3
        /\ \A f \in WrittenIdx(psrc) : f < frame.length

\* C13 (as claimed): converting a 2-byte buffer [y, c] uses the neutral chroma
\* for both U and V whatever c is, so the pixel has R = G = B for every c.
C13_EdgePixelGrayForEveryChroma ==
    (pres.fn = "convert" /\ pres.srclen = 2) =>
        (frame.data[1] = frame.data[2] /\ frame.data[2] = frame.data[3])

\* C13 (amended): converting a 2-byte buffer [y, c] uses the neutral chroma
\* 0x80 for V only and the byte c as U; the pixel has R = G = B when c is
\* 0x80.
C13_EdgePixelNeutralVOnly ==
    (pres.fn = "convert" /\ pres.srclen = 2) =>
        /\ frame.data[1] = clamp(RNum(psrc[1], psrc[2], 128))
        /\ frame.data[2] = clamp(GNum(psrc[1], psrc[2], 128))
        /\ frame.data[3] = clamp(BNum(psrc[1], psrc[2], 128))
        /\ psrc[2] = 128 =>
               (frame.data[1] = frame.data[2] /\ frame.data[2] = frame.data[3])

C13_Witness ==
    /\ pres.fn = "convert" /\ pres.srclen = 2
    /\ psrc[2] # 128 /\ frame.data[1] # frame.data[3]

\* C16: when every chroma byte of the buffer is 0x80 each pixel converted into
\* the frame has R = G = B, and [0x10, 0x80, 0x10, 0x80] converts to
\* (0, 0, 0), (0, 0, 0).
C16_NeutralChromaIsGray ==
    (pres.fn = "convert"
     /\ \A k \in 1 .. Len(psrc) : k % 2 = 0 => psrc[k] = 128) =>
        /\ \A p \in 0 .. (Len(psrc) \div 2 - 1) :
               3 * p + 3 <= frame.length =>
                   /\ frame.data[3 * p + 1] = frame.data[3 * p + 2]
                   /\ frame.data[3 * p + 2] = frame.data[3 * p + 3]
        /\ (psrc = <<16, 128, 16, 128>> /\ frame.length = 6) =>
               frame.data = <<0, 0, 0, 0, 0, 0>>

C16_Witness ==
    /\ pres.fn = "convert" /\ psrc = <<16, 128, 16, 128>>
    /\ frame.data = <<0, 0, 0, 0, 0, 0>>

\* C18 (as claimed): every converted pixel has R = clamp(Y + 1.402 Pr),
\* G = clamp(Y - 0.344 Pb - 0.714 Pr) and B = clamp(Y + 1.772 Pb), with
\* Y = (255/219)(y - 16), Pb = (255/224)(u - 128), Pr = (255/224)(v - 128);
\* so with y and v fixed G does not increase when u increases.
C18_GreenSubtractsBlueDifference ==
    pres.fn = "convert" =>
        \A k \in SampleIdx(psrc) :
            (k \div 2) * 3 + 2 < frame.length =>
                /\ frame.data[(k \div 2) * 3 + 1] =
                       clamp(YTerm(PixY(psrc, k)) + PTerm(1402, PixV(psrc, k)))
                /\ frame.data[(k \div 2) * 3 + 2] =
                       clamp(YTerm(PixY(psrc, k)) - PTerm(344, PixU(psrc, k))
                               - PTerm(714, PixV(psrc, k)))
                /\ frame.data[(k \div 2) * 3 + 3] =
                       clamp(YTerm(PixY(psrc, k)) + PTerm(1772, PixU(psrc, k)))

\* C14 (as claimed): equalize on a buffer whose luma samples all have the
\* same value never evaluates a division with a zero denominator, and every
\* luma byte has a defined value afterwards.
C14_UniformLumaNoZeroDivision ==
    (pres.fn = "equalize"
     /\ \A j, k \in LumaIdx(pres.before) :
            pres.before[j + 1] = pres.before[k + 1]) =>
        ~pres.divzero

\* C15: equalize changes only even-indexed (luma) bytes: every odd-indexed
\* byte and the buffer length are the same before and after the call.
C15_EqualizeKeepsChroma ==
    pres.fn = "equalize" =>
        /\ Len(psrc) = Len(pres.before)
        /\ \A k \in 0 .. (Len(psrc) - 1) :
               k % 2 = 1 => psrc[k + 1] = pres.before[k + 1]

C15_Witness ==
    /\ pres.fn = "equalize"
    /\ \E k \in LumaIdx(psrc) : psrc[k + 1] # pres.before[k + 1]
    /\ \E k \in 0 .. (Len(psrc) - 1) : k % 2 = 1 /\ psrc[k + 1] = 235
    /\ ~pres.divzero /\ ~pres.lost /\ ~pres.halted

\* C20 (as claimed): on a buffer with at least two distinct luma values
\* equalize replaces every luma byte v by
\* (cdf[v] - cdf_min) / (total - cdf_min) * 255 rounded to the nearest
\* integer; the lowest luma value maps to 0 and the highest to 255.  Stated
\* for the calls that counted every luma byte in the histogram.
C20_EqualizeRoundsToNearest ==
    (pres.fn = "equalize" /\ ~pres.lost /\ ~pres.halted
     /\ \E j, k \in LumaIdx(pres.before) :
            pres.before[j + 1] # pres.before[k + 1]) =>
        \A k \in LumaIdx(pres.before) :
            LET v == pres.before[k + 1]
                cmin == CdfMin(pres.before, FALSE)
                num == 255 * (Cdf(pres.before, v, FALSE) - cmin)
                den == Len(pres.before) \div 2 - cmin
                d == num - den * psrc[k + 1]
            IN  /\ 2 * d <= den /\ -2 * d <= den
                /\ (\A j \in LumaIdx(pres.before) : v <= pres.before[j + 1])
                       => psrc[k + 1] = 0
                /\ (\A j \in LumaIdx(pres.before) : v >= pres.before[j + 1])
                       => psrc[k + 1] = 255

\* C21 (as claimed): whenever webcam_resize has returned, in every outcome,
\* nbuffers equals the number of mapped regions reachable through the buffers
\* array and the array is not a released one; and over any sequence of resize
\* calls every region that is unmapped was mapped at that moment (none is
\* unmapped twice, no never-mapped entry is unmapped).
C21_PoolBookkeepingConsistent ==
    /\ (pc = "main" /\ op = "resize") =>
           /\ nbuffers = Cardinality({s \in Slots : mapst[s] = "mapped"})
           /\ barr # "freed"
    /\ unm.valid => unm.was = "mapped"

====
